---- MODULE Spec2Model ----
(***************************************************************************)
(* du-recall: source handlers (handlers/file_handlers.py), the Prefect     *)
(* pipeline (pipeline/flow.py), the RDF mapping and the triple sink        *)
(* (handlers/rdf_storage.py) and the HTTP glue (app.py).                   *)
(*                                                                         *)
(* Python values are tagged pairs <<type, payload>>, so that truthiness,   *)
(* key presence and NaN behave as they do in the code.  Floats are held in *)
(* hundredths.  A Record (a dict) is a function whose DOMAIN is its set of *)
(* keys; a batch (a list of dicts) is a sequence of Records.               *)
(***************************************************************************)
EXTENDS Integers, Sequences, FiniteSets, TLC

\* ---------------------------------------------------------------- bounds
\* tokens of a source identifier
MaxIdLen == 4
\* rows of an ingested tabular file
MaxRows == 2
\* Records of a batch handed directly to a stage function or to the mapper
MaxArgLen == 2
\* distinct values np.random.rand() is allowed to return: k / RandLevels
RandLevels == 2
\* runs of the pipeline on one source identifier (SpecRerun)
MaxRuns == 2

\* ------------------------------------------------------- Python values
IntV(n) == <<"int", n>>
StrV(s) == <<"str", s>>
BoolV(b) == <<"bool", b>>
FloatV(x) == <<"float", x>>
NaN == <<"nan", 0>>
None == <<"none", 0>>

\* bool(v)
Truthy(v) ==
    CASE v[1] = "int" -> v[2] # 0
      [] v[1] = "float" -> v[2] # 0
      [] v[1] = "str" -> v[2] # ""
      [] v[1] = "bool" -> v[2]
      [] v[1] = "nan" -> TRUE
      [] v[1] = "none" -> FALSE

\* key in record
Has(record, key) == key \in DOMAIN record

\* record.get(key, default)
Get(record, key, default) == IF key \in DOMAIN record THEN record[key] ELSE default

\* {**record, key: value}
Put(record, key, value) ==
    [k \in DOMAIN record \cup {key} |-> IF k = key THEN value ELSE record[k]]

\* {k: v for k, v in record.items() if k not in [key]}
Without(record, key) == [k \in DOMAIN record \ {key} |-> record[k]]

\* {**a, **b}: the keys of b win
Merge(a, b) == [k \in DOMAIN a \cup DOMAIN b |-> IF k \in DOMAIN b THEN b[k] ELSE a[k]]

Restrict(record, keys) == [k \in keys |-> record[k]]

\* sequences over S of length at most n
SeqUpTo(S, n) == UNION {[1..k -> S] : k \in 0..n}

\* ------------------------------------------------- source identifiers
\* A source identifier is a string, held as the sequence of its tokens; a
\* token stands for the characters it is written with.
Tokens == {"http", "HTTPS", "ftp", ":", "//", "[", "ecommerce-report", ".csv", ".xlsx"}

Identifiers == SeqUpTo(Tokens, MaxIdLen)

\* str.lower()
Lower(t) == IF t = "HTTPS" THEN "https" ELSE t

RECURSIVE JoinLower(_)
JoinLower(s) == IF s = <<>> THEN "" ELSE Lower(Head(s)) \o JoinLower(Tail(s))

\* urllib.parse: scheme_chars are letters, digits and "+-."
SchemeChars(t) == t \notin {":", "//", "["}

\* url[0].isascii() and url[0].isalpha()
AlphaStart(t) == t \notin {":", "//", "[", ".csv", ".xlsx"}

\* url.find(':'), 1-based; 0 when there is none
FindColon(s) ==
    IF \E k \in 1..Len(s) : s[k] = ":"
    THEN CHOOSE k \in 1..Len(s) : s[k] = ":" /\ \A j \in 1..(k - 1) : s[j] # ":"
    ELSE 0

\* urlparse(source_identifier): splits off the scheme (lower-cased) when the
\* text before the first colon is made of scheme characters, then reads the
\* network location after "//" up to the next "/"; a "[" without its "]" in
\* the network location raises ValueError (ok = FALSE).
urlparse(s) ==
    LET i == FindColon(s)
        hasScheme == /\ i > 1
                     /\ AlphaStart(s[1])
                     /\ \A k \in 1..(i - 1) : SchemeChars(s[k])
        scheme == IF hasScheme THEN JoinLower(SubSeq(s, 1, i - 1)) ELSE ""
        rest == IF hasScheme THEN SubSeq(s, i + 1, Len(s)) ELSE s
        hasNetloc == Len(rest) >= 1 /\ rest[1] = "//"
        after == IF hasNetloc THEN Tail(rest) ELSE <<>>
        stop == IF \E k \in 1..Len(after) : after[k] = "//"
                THEN CHOOSE k \in 1..Len(after) :
                        after[k] = "//" /\ \A j \in 1..(k - 1) : after[j] # "//"
                ELSE Len(after) + 1
        netloc == SubSeq(after, 1, stop - 1)
    IN  IF \E k \in 1..Len(netloc) : netloc[k] = "["
        THEN [ok |-> FALSE, scheme |-> ""]
        ELSE [ok |-> TRUE, scheme |-> scheme]

\* mutant: the scheme is compared as written, not lower-cased by urlparse
is_url_CaseSensitive(source_identifier) ==
    LET result == urlparse(source_identifier)
        i == FindColon(source_identifier)
    IN  IF result.ok
        THEN result.scheme \in {"http", "https"}
             /\ \A k \in 1..(i - 1) : source_identifier[k] = Lower(source_identifier[k])
        ELSE FALSE

is_url(source_identifier) ==
    LET result == urlparse(source_identifier)
    IN  IF result.ok THEN result.scheme \in {"http", "https"} ELSE FALSE

\* source_identifier.lower().endswith(('.csv', '.txt'))
EndsWithCsvTxt(source_identifier) ==
    /\ source_identifier # <<>>
    /\ Lower(source_identifier[Len(source_identifier)]) \in {".csv", ".txt"}

get_handler(source_identifier) ==
    IF is_url(source_identifier) THEN "TrustfallWebHandler"
    ELSE IF EndsWithCsvTxt(source_identifier) THEN "CSVFileHandler"
    ELSE "CSVFileHandler"

\* ------------------------------------------------------ source handlers
ShortText == "A quick memo about Q3 inventory status."
MidText == "The new smartphone has a great camera and long battery life."
LongText == "Q1 saw a massive spike in smart device sales across North America. Inventory velocity is high. Restock."
WebText101 == "Q1 saw a massive spike in smart device sales across North America. Inventory velocity is high."
WebText102 == "Minor delays in EU shipping chain impacted Q2 revenue targets slightly."

\* mutant: any() where the code has all()
validate_Any(data) ==
    IF data = <<>> THEN FALSE
    ELSE IF ~(\E i \in 1..Len(data) : Has(data[i], "id") /\ Has(data[i], "raw_text"))
         THEN FALSE
         ELSE TRUE

\* FileHandler.validate
validate(data) ==
    IF data = <<>> THEN FALSE
    ELSE IF ~(\A i \in 1..Len(data) : Has(data[i], "id") /\ Has(data[i], "raw_text"))
         THEN FALSE
         ELSE TRUE

\* What pd.read_csv finds in a file: rows over one set of columns.
FileColumns == (SUBSET {"id", "raw_text", "in_stock"}) \ {{}}

CellRows ==
    [id : {IntV(0), IntV(1)},
     raw_text : {StrV(ShortText), StrV(MidText), NaN},
     in_stock : {BoolV(TRUE), BoolV(FALSE)}]

FileContents ==
    UNION {SeqUpTo({Restrict(r, cols) : r \in CellRows}, MaxRows) : cols \in FileColumns}

\* CSVFileHandler.parse: any exception of pd.read_csv (readable = FALSE) is
\* caught and surfaces as the empty batch; a file without an id column gets
\* the synthetic ids 1..n.
CSVFileHandler_parse(rows, readable) ==
    IF ~readable THEN <<>>
    ELSE [i \in 1..Len(rows) |->
            IF Has(rows[i], "id") THEN rows[i] ELSE Put(rows[i], "id", IntV(i))]

\* TrustfallWebHandler._mock_trustfall_execute
TrustfallWebHandler_parse(url) ==
    IF \E k \in 1..Len(url) : url[k] = "ecommerce-report"
    THEN << [id |-> IntV(101), title |-> StrV("Q1 Inventory Summary"),
             price |-> FloatV(0), review_count |-> IntV(50),
             author_name |-> StrV("Web Scraper"), in_stock |-> BoolV(TRUE),
             raw_text |-> StrV(WebText101)],
            [id |-> IntV(102), title |-> StrV("Q2 Key Takeaways"),
             price |-> FloatV(0), review_count |-> IntV(12),
             author_name |-> StrV("Web Scraper"), in_stock |-> BoolV(FALSE),
             raw_text |-> StrV(WebText102)] >>
    ELSE <<>>

\* handler.parse()
parse(h, source_identifier, rows, readable) ==
    IF h = "TrustfallWebHandler" THEN TrustfallWebHandler_parse(source_identifier)
    ELSE CSVFileHandler_parse(rows, readable)

\* ------------------------------------------------------- pipeline tasks
Raise(type, message) == [ok |-> FALSE, error |-> type, message |-> message]
Return(value) == [ok |-> TRUE, value |-> value]

\* mutant: retry_delay_seconds=5, one delay for every retry
RetryDelaySeconds_Scalar == <<5, 5, 5>>

\* @task(retries=3, retry_delay_seconds=[5, 10, 30])
IngestRetries == 3
RetryDelaySeconds == <<5, 10, 30>>

\* ingest_and_validate, one attempt
ingest_and_validate(source_identifier, rows, readable) ==
    LET h == get_handler(source_identifier)
        data == parse(h, source_identifier, rows, readable)
    IN  IF data = <<>> \/ ~validate(data)
        THEN Raise("ValueError", "Ingestion failed: Data is empty or invalid after parsing.")
        ELSE Return(data)

\* MockHaystackClassifier.run, per document
ClassificationLabel(content_len) ==
    IF content_len > 100 THEN "LongReport"
    ELSE IF content_len > 40 THEN "DetailedSpec"
    ELSE "ProductReview"

\* run_llm_classification with the merged record built from the metadata
\* alone, the document's content left out
run_llm_classification_MetaOnly(raw_data) ==
    LET content(i) == Get(raw_data[i], "raw_text", StrV(""))
        meta(i) == Without(raw_data[i], "raw_text")
        new_meta(i) == Put(meta(i), "llm_classification",
                           StrV(ClassificationLabel(Len(content(i)[2]))))
    IN  IF raw_data = <<>> THEN Return(raw_data)
        ELSE IF \E i \in 1..Len(raw_data) : content(i)[1] # "str"
        THEN Raise("TypeError", "object of type 'float' has no len()")
        ELSE Return([i \in 1..Len(raw_data) |-> new_meta(i)])

\* run_llm_classification: len(doc.content) raises TypeError when raw_text
\* is not a string (the NaN pandas reads from an empty cell).
run_llm_classification(raw_data) ==
    LET content(i) == Get(raw_data[i], "raw_text", StrV(""))
        meta(i) == Without(raw_data[i], "raw_text")
        new_meta(i) == Put(meta(i), "llm_classification",
                           StrV(ClassificationLabel(Len(content(i)[2]))))
    IN  IF raw_data = <<>> THEN Return(raw_data)
        ELSE IF \E i \in 1..Len(raw_data) : content(i)[1] # "str"
        THEN Raise("TypeError", "object of type 'float' has no len()")
        ELSE Return([i \in 1..Len(raw_data) |->
                        Merge([raw_text |-> content(i)], new_meta(i))])

\* pd.DataFrame(data): the columns are the union of the Records' keys; a cell
\* a Record has no key for is NaN, and an integer column holding a NaN is a
\* float column.
Columns(data) == UNION {DOMAIN data[i] : i \in 1..Len(data)}

Cell(data, i, c) ==
    IF ~Has(data[i], c) THEN NaN
    ELSE IF /\ data[i][c][1] = "int"
            /\ \E j \in 1..Len(data) : ~Has(data[j], c)
            /\ \A j \in 1..Len(data) : Has(data[j], c) => data[j][c][1] \in {"int", "float"}
         THEN FloatV(data[i][c][2] * 100)
         ELSE data[i][c]

\* row.get(key, default)
RowGet(data, i, key, default) ==
    IF key \in Columns(data) THEN Cell(data, i, key) ELSE default

\* the lambda of df['inventory_velocity'], in hundredths; rand is the draw
\* of np.random.rand(), k standing for k / RandLevels
inventory_velocity(data, i, rand) ==
    IF /\ Truthy(RowGet(data, i, "in_stock", BoolV(FALSE)))
       /\ RowGet(data, i, "llm_classification", None) = StrV("DetailedSpec")
    THEN FloatV((rand * 400) \div RandLevels + 100)
    ELSE FloatV((rand * 150) \div RandLevels)

Min(a, b) == IF a <= b THEN a ELSE b

\* calculate_priority, in hundredths
calculate_priority(data, i) ==
    LET classification == RowGet(data, i, "llm_classification", StrV(""))
        in_stock == RowGet(data, i, "in_stock", BoolV(FALSE))
        s1 == IF classification = StrV("DetailedSpec") THEN 4
              ELSE IF classification = StrV("ProductReview") THEN 2
              ELSE 0
        s2 == IF Truthy(in_stock) /\ classification = StrV("ProductReview") THEN 1
              ELSE IF ~Truthy(in_stock) /\ classification = StrV("DetailedSpec") THEN 1
              ELSE 0
    IN  FloatV(Min(((s1 + s2) * 100 * 5) \div 5, 500))

\* run_dask_analysis; draws[i] is the random draw of row i.  final_data[0]
\* in the closing print raises IndexError on the empty batch.
run_dask_analysis(data, draws) ==
    IF data = <<>> THEN Raise("IndexError", "list index out of range")
    ELSE Return([i \in 1..Len(data) |->
            [c \in Columns(data) \cup {"inventory_velocity", "priority_score"} |->
                IF c = "inventory_velocity" THEN inventory_velocity(data, i, draws[i])
                ELSE IF c = "priority_score" THEN calculate_priority(data, i)
                ELSE Cell(data, i, c)]])

Draws(data) == [1..Len(data) -> 0..(RandLevels - 1)]

\* ----------------------------------------------- RDF mapping and sink
URI(ns, name) == <<"uri", ns, name>>
Literal(v) == <<"literal", v>>
TypedLiteral(v, datatype) == <<"literal", v, datatype>>

\* str(x) of a float held in hundredths
FormatFloat(h) ==
    LET whole == ToString(h \div 100)
        frac == h % 100
    IN  IF frac % 10 = 0 THEN whole \o "." \o ToString(frac \div 10)
        ELSE IF frac < 10 THEN whole \o ".0" \o ToString(frac)
        ELSE whole \o "." \o ToString(frac)

\* f"{v}"
Format(v) ==
    CASE v[1] = "int" -> ToString(v[2])
      [] v[1] = "float" -> FormatFloat(v[2])
      [] v[1] = "str" -> v[2]
      [] v[1] = "bool" -> IF v[2] THEN "True" ELSE "False"
      [] v[1] = "nan" -> "nan"
      [] v[1] = "none" -> "None"

\* round(priority, 1) on hundredths, ties to even
Round1(v) ==
    IF v[1] # "float" THEN v
    ELSE LET q == v[2] \div 10
             r == v[2] % 10
         IN  IF r < 5 \/ (r = 5 /\ q % 2 = 0) THEN FloatV(q * 10) ELSE FloatV((q + 1) * 10)

RDF_type == URI("rdf", "type")
SCHEMA(name) == URI("schema", name)
ANALYSIS_NS(name) == URI("analysis", name)

\* the body of convert_to_rdf's loop for one Record
RecordTriples(record) ==
    LET record_id == Get(record, "id", None)
        product_uri == ANALYSIS_NS("Product_" \o Format(record_id))
        review_uri == ANALYSIS_NS("Review_" \o Format(record_id))
        rating_uri == ANALYSIS_NS("Rating_" \o Format(record_id))
        classification == Get(record, "llm_classification", None)
        velocity == Get(record, "inventory_velocity", None)
        priority == Get(record, "priority_score", None)
    IN  IF ~Truthy(record_id) THEN {}
        ELSE {<<product_uri, RDF_type, SCHEMA("Product")>>}
             \cup (IF Has(record, "raw_text")
                   THEN {<<product_uri, SCHEMA("description"), Literal(record["raw_text"])>>}
                   ELSE {})
             \cup (IF Has(record, "in_stock")
                   THEN IF Truthy(record["in_stock"])
                        THEN {<<product_uri, SCHEMA("availability"), SCHEMA("InStock")>>}
                        ELSE {<<product_uri, SCHEMA("availability"), SCHEMA("OutOfStock")>>}
                   ELSE {})
             \cup (IF Truthy(classification)
                   THEN {<<product_uri, SCHEMA("category"), Literal(classification)>>,
                         <<review_uri, RDF_type, SCHEMA("Review")>>,
                         <<review_uri, SCHEMA("itemReviewed"), product_uri>>,
                         <<review_uri, SCHEMA("reviewBody"),
                           Literal(StrV("LLM insight: " \o Format(classification)))>>}
                   ELSE {})
             \cup (IF velocity # None
                   THEN {<<product_uri, ANALYSIS_NS("inventoryVelocity"),
                           TypedLiteral(velocity, "xsd:float")>>}
                   ELSE {})
             \cup (IF priority # None
                   THEN {<<rating_uri, RDF_type, SCHEMA("Rating")>>,
                         <<rating_uri, SCHEMA("ratingValue"),
                           TypedLiteral(Round1(priority), "xsd:float")>>,
                         <<rating_uri, SCHEMA("bestRating"), TypedLiteral(IntV(5), "xsd:float")>>,
                         <<product_uri, SCHEMA("aggregateRating"), rating_uri>>}
                   ELSE {})

\* convert_to_rdf: the triples of the rdflib Graph, a set
convert_to_rdf(final_data) ==
    UNION {RecordTriples(final_data[i]) : i \in 1..Len(final_data)}

\* store_rdf_triples: the acknowledgment it returns
store_rdf_triples(triples) ==
    IF triples # {}
    THEN "Successfully stored " \o ToString(Cardinality(triples)) \o " triples to RocksDB."
    ELSE "No triples generated to store."

\* TripleSink.write on a sink that accumulates triples as a set
SinkWrite(stored, triples) == stored \cup triples

\* trigger_prefect_flow: what the caller of run(source_identifier) gets
SuccessOutcome(source_identifier) ==
    [status |-> "Flow triggered successfully", source |-> source_identifier]

FailureOutcome(e) ==
    [status_code |-> 500, detail |-> "Failed to trigger flow: " \o e.message]

\* The failure condition of an ingestion attempt, in the taxonomy of the
\* design: the file could not be read, the parse gave no Record, or validate
\* rejected the batch.
FailureKind(source_identifier, rows, readable) ==
    LET h == get_handler(source_identifier)
    IN  IF h = "CSVFileHandler" /\ ~readable THEN "SourceUnreachable"
        ELSE IF parse(h, source_identifier, rows, readable) = <<>> THEN "SourceEmpty"
        ELSE "SourceFormatInvalid"

\* ---------------------------------------------------------------- state
VARIABLES
    state,            \* Ingesting, Classifying, Scoring, Persisting, Succeeded, Failed
    source,           \* the source identifier of the run
    rows,             \* what the file at source holds
    attempts,         \* calls of ingest_and_validate in this run
    waits,            \* the retry delays slept so far, in seconds
    errors,           \* failure condition of each failed ingestion attempt, in order
    raw_data, classified_data, analyzed_data,
    stored,           \* the triples the sink holds
    sinkCalls,        \* calls of store_rdf_triples in this run
    store_result,     \* the sink's acknowledgment
    outcome,          \* what trigger_prefect_flow hands back
    failedStage,      \* the stage whose task raised
    visited,          \* the stages entered in this run, in order
    runs,             \* runs started on this source
    counts,           \* size of the stored graph after each succeeded run
    handler,          \* result of get_handler (SpecDispatch)
    op, arg, ret      \* a direct call of a stage function: name, argument, result

runVars == <<state, source, rows, attempts, waits, errors, raw_data, classified_data,
             analyzed_data, stored, sinkCalls, store_result, outcome, failedStage,
             visited, runs, counts>>
callVars == <<handler, op, arg, ret>>
vars == <<runVars, callVars>>

Stages == <<"Ingesting", "Classifying", "Scoring", "Persisting">>

\* nothing has run
Blank ==
    /\ attempts = 0 /\ waits = <<>> /\ errors = <<>>
    /\ raw_data = <<>> /\ classified_data = <<>> /\ analyzed_data = <<>>
    /\ stored = {} /\ sinkCalls = 0 /\ store_result = "none"
    /\ outcome = <<>> /\ failedStage = "none"
    /\ counts = <<>>
    /\ handler = "none" /\ op = "none" /\ ret = <<>>

\* the source identifiers the pipeline is run on: a file path, a URL the
\* extraction has Records for, a URL it has none for
SampleSources ==
    { <<"ecommerce-report", ".csv">>,
      <<"http", ":", "//", "ecommerce-report">>,
      <<"HTTPS", ":", "//", "ftp">> }

\* data_pipeline_flow(source_identifier) has been called
Init ==
    /\ Blank
    /\ state = "Ingesting" /\ visited = <<"Ingesting">> /\ runs = 1
    /\ source \in SampleSources
    /\ rows \in (IF is_url(source) THEN {<<>>} ELSE FileContents)
    /\ arg = <<>>

\* ------------------------------------------------------------- the flow
\* a task raised: the flow raises, trigger_prefect_flow answers 500
FlowFails(stage, e) ==
    /\ state' = "Failed"
    /\ failedStage' = stage
    /\ outcome' = FailureOutcome(e)

\* One attempt of ingest_and_validate.  Prefect runs the task again after
\* any exception while retries are left, sleeping retry_delay_seconds[n]
\* before the n-th retry; afterwards the exception ends the flow.
Ingest ==
    /\ state = "Ingesting"
    /\ \E readable \in BOOLEAN :
        LET res == ingest_and_validate(source, rows, readable)
        IN  /\ attempts' = attempts + 1
            /\ IF res.ok
               THEN /\ state' = "Classifying"
                    /\ raw_data' = res.value
                    /\ visited' = Append(visited, "Classifying")
                    /\ UNCHANGED <<waits, errors, failedStage, outcome>>
               ELSE /\ errors' = Append(errors, FailureKind(source, rows, readable))
                    /\ IF attempts < IngestRetries
                       THEN /\ waits' = Append(waits, RetryDelaySeconds[attempts + 1])
                            /\ UNCHANGED <<state, failedStage, outcome>>
                       ELSE /\ FlowFails("Ingesting", res)
                            /\ UNCHANGED waits
                    /\ UNCHANGED <<raw_data, visited>>
    /\ UNCHANGED <<source, rows, classified_data, analyzed_data, stored, sinkCalls,
                   store_result, runs, counts, callVars>>

\* mutant: the flow catches the task's exception and goes on with its input
Classify_Swallow ==
    /\ state = "Classifying"
    /\ LET res == run_llm_classification(raw_data)
       IN  /\ state' = "Scoring"
           /\ classified_data' = IF res.ok THEN res.value ELSE raw_data
           /\ visited' = Append(visited, "Scoring")
           /\ UNCHANGED <<failedStage, outcome>>
    /\ UNCHANGED <<source, rows, attempts, waits, errors, raw_data, analyzed_data,
                   stored, sinkCalls, store_result, runs, counts, callVars>>

\* run_llm_classification as a task without retries
Classify ==
    /\ state = "Classifying"
    /\ LET res == run_llm_classification(raw_data)
       IN  IF res.ok
           THEN /\ state' = "Scoring"
                /\ classified_data' = res.value
                /\ visited' = Append(visited, "Scoring")
                /\ UNCHANGED <<failedStage, outcome>>
           ELSE /\ FlowFails("Classifying", res)
                /\ UNCHANGED <<classified_data, visited>>
    /\ UNCHANGED <<source, rows, attempts, waits, errors, raw_data, analyzed_data,
                   stored, sinkCalls, store_result, runs, counts, callVars>>

\* run_dask_analysis as a task without retries
Score ==
    /\ state = "Scoring"
    /\ \E draws \in Draws(classified_data) :
        LET res == run_dask_analysis(classified_data, draws)
        IN  IF res.ok
            THEN /\ state' = "Persisting"
                 /\ analyzed_data' = res.value
                 /\ visited' = Append(visited, "Persisting")
                 /\ UNCHANGED <<failedStage, outcome>>
            ELSE /\ FlowFails("Scoring", res)
                 /\ UNCHANGED <<analyzed_data, visited>>
    /\ UNCHANGED <<source, rows, attempts, waits, errors, raw_data, classified_data,
                   stored, sinkCalls, store_result, runs, counts, callVars>>

\* store_results_to_rocksdb as a task without retries: the write either is
\* acknowledged (written = TRUE) or raises, and a raise ends the flow.
Persist ==
    /\ state = "Persisting"
    /\ \E written \in BOOLEAN :
        LET triples == convert_to_rdf(analyzed_data)
        IN  /\ sinkCalls' = sinkCalls + 1
            /\ IF written
               THEN /\ stored' = SinkWrite(stored, triples)
                    /\ store_result' = store_rdf_triples(triples)
                    /\ counts' = Append(counts, Cardinality(stored'))
                    /\ state' = "Succeeded"
                    /\ outcome' = SuccessOutcome(source)
                    /\ UNCHANGED failedStage
               ELSE /\ FlowFails("Persisting", Raise("Exception", "sink write failed"))
                    /\ UNCHANGED <<stored, store_result, counts>>
    /\ UNCHANGED <<source, rows, attempts, waits, errors, raw_data, classified_data,
                   analyzed_data, visited, runs, callVars>>

Next == Ingest \/ Classify \/ Score \/ Persist

Spec == Init /\ [][Next]_vars

\* The pipeline is triggered again on the same source identifier, the file
\* unchanged and the sink keeping what it holds.
Rerun ==
    /\ state \in {"Succeeded", "Failed"}
    /\ runs < MaxRuns
    /\ runs' = runs + 1
    /\ state' = "Ingesting" /\ visited' = <<"Ingesting">>
    /\ attempts' = 0 /\ waits' = <<>> /\ errors' = <<>>
    /\ raw_data' = <<>> /\ classified_data' = <<>> /\ analyzed_data' = <<>>
    /\ sinkCalls' = 0 /\ store_result' = "none"
    /\ outcome' = <<>> /\ failedStage' = "none"
    /\ UNCHANGED <<source, rows, stored, counts, callVars>>

NextRerun == Ingest \/ Classify \/ Score \/ Persist \/ Rerun

SpecRerun == Init /\ [][NextRerun]_vars

\* ------------------------------------------- direct calls of the functions
Idle ==
    /\ Blank
    /\ state = "Idle" /\ visited = <<>> /\ runs = 0
    /\ rows = <<>>

\* get_handler(source)
InitDispatch == Idle /\ source \in Identifiers /\ arg = <<>>

CallGetHandler ==
    /\ op = "none"
    /\ op' = "get_handler"
    /\ handler' = get_handler(source)
    /\ UNCHANGED <<runVars, arg, ret>>

NextDispatch == CallGetHandler

SpecDispatch == InitDispatch /\ [][NextDispatch]_vars

\* Records handed to validate, run_llm_classification and run_dask_analysis
StageRecords ==
    UNION {{Restrict(r, keys) :
                r \in [id : {IntV(0), IntV(1)},
                       raw_text : {StrV(""), StrV(ShortText), StrV(MidText),
                                   StrV(LongText), NaN}]} :
           keys \in (SUBSET {"id", "raw_text"}) \ {{}}}
    \cup
    UNION {{Restrict(r, keys \cup {"id", "raw_text"}) :
                r \in [id : {IntV(1)}, raw_text : {StrV(ShortText)},
                       in_stock : {BoolV(TRUE), BoolV(FALSE)},
                       llm_classification : {StrV("ProductReview"), StrV("DetailedSpec"),
                                             StrV("LongReport")}]} :
           keys \in SUBSET {"in_stock", "llm_classification"}}

InitStage == Idle /\ source = <<>> /\ arg \in SeqUpTo(StageRecords, MaxArgLen)

CallValidate ==
    /\ op = "none"
    /\ op' = "validate"
    /\ ret' = Return(validate(arg))
    /\ UNCHANGED <<runVars, handler, arg>>

CallClassify ==
    /\ op = "none"
    /\ op' = "run_llm_classification"
    /\ ret' = run_llm_classification(arg)
    /\ UNCHANGED <<runVars, handler, arg>>

CallScore ==
    /\ op = "none"
    /\ op' = "run_dask_analysis"
    /\ \E draws \in Draws(arg) : ret' = run_dask_analysis(arg, draws)
    /\ UNCHANGED <<runVars, handler, arg>>

NextStage == CallValidate \/ CallClassify \/ CallScore

SpecStage == InitStage /\ [][NextStage]_vars

\* Records handed to convert_to_rdf
MapperRecords ==
    UNION {{Restrict(r, keys) :
                r \in [id : {IntV(0), IntV(1)}, raw_text : {StrV(ShortText)},
                       in_stock : {BoolV(TRUE), BoolV(FALSE)}]} :
           keys \in (SUBSET {"id", "raw_text", "in_stock"}) \ {{}}}
    \cup
    UNION {{Restrict(r, keys \cup {"id"}) :
                r \in [id : {IntV(0), IntV(1)},
                       llm_classification : {StrV(""), StrV("DetailedSpec")},
                       inventory_velocity : {FloatV(75)},
                       priority_score : {FloatV(300), FloatV(500)}]} :
           keys \in SUBSET {"llm_classification", "inventory_velocity", "priority_score"}}

InitMapper == Idle /\ source = <<>> /\ arg \in SeqUpTo(MapperRecords, MaxArgLen)

CallConvert ==
    /\ op = "none"
    /\ op' = "convert_to_rdf"
    /\ ret' = Return(convert_to_rdf(arg))
    /\ UNCHANGED <<runVars, handler, arg>>

NextMapper == CallConvert

SpecMapper == InitMapper /\ [][NextMapper]_vars

\* ================================================================ claims

\* C1 (stated as claimed; the code violates it).  An ingestion attempt that
\* fails with SourceEmpty or SourceFormatInvalid takes the run directly to
\* Failed: it is the run's only invocation of the handler, and no retry
\* follows it.
C1_PermanentErrorsNotRetried ==
    \A k \in 1..Len(errors) :
        errors[k] \in {"SourceEmpty", "SourceFormatInvalid"}
        => (k = 1 /\ attempts = 1 /\ state = "Failed" /\ failedStage = "Ingesting")

\* C2.  Ingestion that fails with SourceUnreachable is retried at most 3
\* times, after waits of 5 s, 10 s and 30 s in that order; the run fails
\* only when the 3rd retry failed too, and no run makes more than 4 attempts.
C2_UnreachableRetriedThreeTimes ==
    /\ attempts <= 4
    /\ Len(waits) <= 3
    /\ waits = SubSeq(<<5, 10, 30>>, 1, Len(waits))
    /\ (errors # <<>> /\ errors[Len(errors)] = "SourceUnreachable") =>
        /\ state = "Ingesting" => (attempts <= 3 /\ Len(waits) = attempts)
        /\ (state = "Failed" /\ failedStage = "Ingesting")
            => (attempts = 4 /\ waits = <<5, 10, 30>>)

C2_Witness ==
    /\ state = "Failed" /\ failedStage = "Ingesting"
    /\ errors = <<"SourceUnreachable", "SourceUnreachable", "SourceUnreachable",
                  "SourceUnreachable">>
    /\ attempts = 4 /\ waits = <<5, 10, 30>>

\* the batch the handler's parse gives for the run's source
ParsedLen == IF is_url(source) THEN 2 ELSE Len(rows)

\* C3.  The stages run in the order Ingesting, Classifying, Scoring,
\* Persisting, each on the complete batch of the one before; the sink is
\* written only in a run whose first three stages succeeded for every
\* Record, and a run that failed in one of them wrote nothing.
C3_StagesInOrder ==
    /\ visited = SubSeq(Stages, 1, Len(visited))
    /\ Len(visited) >= 2 => (raw_data # <<>> /\ Len(raw_data) = ParsedLen)
    /\ Len(visited) >= 3 =>
        /\ Len(classified_data) = Len(raw_data)
        /\ \A i \in 1..Len(classified_data) : Has(classified_data[i], "llm_classification")
    /\ Len(visited) >= 4 =>
        /\ Len(analyzed_data) = Len(raw_data)
        /\ \A i \in 1..Len(analyzed_data) :
            Has(analyzed_data[i], "priority_score") /\ Has(analyzed_data[i], "llm_classification")
    /\ (sinkCalls > 0 \/ stored # {}) => visited = Stages
    /\ (state = "Failed" /\ failedStage \in {"Ingesting", "Classifying", "Scoring"})
        => (sinkCalls = 0 /\ stored = {})

C3_Witness ==
    /\ state = "Succeeded" /\ visited = Stages
    /\ sinkCalls = 1 /\ stored # {}
    /\ Len(analyzed_data) >= 2

\* C4 (stated as claimed; the code violates it).  A run reaches Failed from
\* Persisting only after the sink write was tried at least twice.
C4_SinkWriteRetried ==
    (state = "Failed" /\ failedStage = "Persisting") => sinkCalls >= 2

\* C5 (stated as claimed; the code violates it).  The Classifying and the
\* Scoring function return the empty batch for the empty batch, without
\* raising.
C5_EmptyBatchPassesThrough ==
    (arg = <<>> /\ op \in {"run_llm_classification", "run_dask_analysis"})
    => (ret.ok /\ ret.value = <<>>)

\* C6 (stated as claimed; the code violates it).  A succeeded run's outcome
\* carries the sink's acknowledgment; a failed run's outcome carries the
\* stage that raised and the error kind.
C6_OutcomeCarriesAckOrStage ==
    /\ state = "Succeeded" =>
        (Has(outcome, "acknowledgment") /\ outcome["acknowledgment"] = store_result)
    /\ state = "Failed" =>
        (Has(outcome, "stage") /\ outcome["stage"] = failedStage /\ Has(outcome, "error_kind"))

\* C7 (stated as claimed; the code violates it).  After a second succeeded
\* run on the same source the stored graph has as many triples as after the
\* first.
C7_RerunKeepsTripleCount ==
    Len(counts) >= 2 => counts[2] = counts[1]

\* a value that is there: not None, not NaN, not the empty string
NonEmpty(v) == v \notin {None, NaN, StrV("")}

\* C8.  validate rejects the empty batch and every batch with a Record that
\* lacks id or raw_text, and accepts every non-empty batch whose Records all
\* have a non-empty id and raw_text: one malformed Record rejects the batch.
C8_ValidateCompleteness ==
    op = "validate" =>
        /\ (\/ arg = <<>>
            \/ \E i \in 1..Len(arg) : "id" \notin DOMAIN arg[i] \/ "raw_text" \notin DOMAIN arg[i])
            => ret.value = FALSE
        /\ (/\ arg # <<>>
            /\ \A i \in 1..Len(arg) :
                /\ "id" \in DOMAIN arg[i] /\ NonEmpty(arg[i]["id"])
                /\ "raw_text" \in DOMAIN arg[i] /\ NonEmpty(arg[i]["raw_text"]))
            => ret.value = TRUE

C8_Witness ==
    /\ op = "validate" /\ Len(arg) = 2
    /\ DOMAIN arg[1] = {"id", "raw_text"} /\ NonEmpty(arg[1]["raw_text"])
    /\ DOMAIN arg[2] = {"id"}
    /\ ret.value = FALSE

\* The identifier is written with the scheme http or https, in any case:
\* it starts "http:" or "https:".
WrittenWithHttpScheme(s) ==
    /\ Len(s) >= 2
    /\ s[1] \in {"http", "HTTPS"}
    /\ s[2] = ":"

\* The identifier has a "[" left open in its network location, the text
\* between the "//" that follows the scheme and the next "/".
OpenBracketInNetloc(s) ==
    /\ Len(s) >= 4
    /\ s[3] = "//"
    /\ \E k \in 4..Len(s) : s[k] = "[" /\ \A j \in 4..(k - 1) : s[j] # "//"

\* C9 (stated as claimed; the code violates it).  get_handler gives every
\* identifier exactly one handler, the remote-document handler iff the
\* identifier's URL scheme is http or https.
C9_RemoteIffHttpScheme ==
    op = "get_handler" =>
        /\ handler \in {"TrustfallWebHandler", "CSVFileHandler"}
        /\ handler = "TrustfallWebHandler" <=> WrittenWithHttpScheme(source)

\* C9 (amended).  get_handler gives every identifier exactly one handler:
\* the remote-document handler iff the identifier is written with the scheme
\* http or https and parses as a URL, the tabular-file handler otherwise,
\* whatever the file extension; an identifier written with the scheme but
\* with a "[" left open in its network location gets the tabular-file
\* handler.
C9_DispatchTotal ==
    op = "get_handler" =>
        /\ handler \in {"TrustfallWebHandler", "CSVFileHandler"}
        /\ handler = "TrustfallWebHandler"
            <=> (WrittenWithHttpScheme(source) /\ ~OpenBracketInNetloc(source))

C9_Witness ==
    /\ op = "get_handler"
    /\ source = <<"HTTPS", ":", "//", "ecommerce-report">>
    /\ handler = "TrustfallWebHandler"

ProductTriple(id) == <<ANALYSIS_NS("Product_" \o Format(id)), RDF_type, SCHEMA("Product")>>

\* C10 (stated as claimed; the code violates it).  convert_to_rdf emits the
\* Product triple of every Record that has an id, whatever the id, and
\* nothing for a Record without id.
C10_SkippedOnlyWithoutId ==
    op = "convert_to_rdf" =>
        /\ \A i \in 1..Len(arg) :
            Has(arg[i], "id") => ProductTriple(arg[i]["id"]) \in ret.value
        /\ (\A i \in 1..Len(arg) : ~Has(arg[i], "id")) => ret.value = {}

\* priority_score of the output Record i of a Scoring call, in hundredths
PriorityOf(i) == ret.value[i]["priority_score"]

\* the Records i and j of the scored batch carry the same classification,
\* i has no in_stock and j has a falsy one
MissingBesideFalsy(i, j) ==
    /\ ~Has(arg[i], "in_stock")
    /\ Has(arg[j], "in_stock") /\ ~Truthy(arg[j]["in_stock"])
    /\ Get(arg[i], "llm_classification", None) = Get(arg[j], "llm_classification", None)

\* C11 (stated as claimed; the code violates it).  Scoring a batch that has
\* Records returns, and every output Record has a priority_score between 0
\* and 5, whatever llm_classification and in_stock are and whether or not
\* they are present; a Record without in_stock is scored as the Record with
\* the same classification and a falsy in_stock, and a Record without
\* llm_classification is scored 0.
C11_PriorityBoundedMissingFalsy ==
    (op = "run_dask_analysis" /\ arg # <<>>) =>
        /\ ret.ok
        /\ \A i \in 1..Len(arg) :
            /\ PriorityOf(i)[1] = "float"
            /\ PriorityOf(i)[2] \in 0..500
            /\ ~Has(arg[i], "llm_classification") => PriorityOf(i) = FloatV(0)
            /\ \A j \in 1..Len(arg) : MissingBesideFalsy(i, j) => PriorityOf(i) = PriorityOf(j)

\* the category triple and the three Review triples of a Record with the
\* given id and classification
ClassificationTriples(id, classification) ==
    LET product_uri == ANALYSIS_NS("Product_" \o Format(id))
        review_uri == ANALYSIS_NS("Review_" \o Format(id))
    IN  {<<product_uri, SCHEMA("category"), Literal(classification)>>,
         <<review_uri, RDF_type, SCHEMA("Review")>>,
         <<review_uri, SCHEMA("itemReviewed"), product_uri>>,
         <<review_uri, SCHEMA("reviewBody"),
           Literal(StrV("LLM insight: " \o Format(classification)))>>}

\* triples with the category predicate or with a Review subject
IsClassificationTriple(t) ==
    \/ t[2] = SCHEMA("category")
    \/ t[2] \in {SCHEMA("itemReviewed"), SCHEMA("reviewBody")}
    \/ (t[2] = RDF_type /\ t[3] = SCHEMA("Review"))

\* C12 (stated as claimed; the code violates it).  convert_to_rdf emits the
\* category triple and the three Review triples of every Record that has an
\* id and an llm_classification, and when no Record of the batch has an
\* llm_classification it emits no category or Review triple at all.
C12_ClassificationTriplesIffPresent ==
    op = "convert_to_rdf" =>
        /\ ret.ok
        /\ \A i \in 1..Len(arg) :
            (Has(arg[i], "id") /\ Has(arg[i], "llm_classification")) =>
                ClassificationTriples(arg[i]["id"], arg[i]["llm_classification"])
                    \subseteq ret.value
        /\ (\A i \in 1..Len(arg) : ~Has(arg[i], "llm_classification")) =>
                \A t \in ret.value : ~IsClassificationTriple(t)

\* every element of the batch is a Record: it has the mandatory id and raw_text
IsRecordBatch(data) ==
    \A i \in 1..Len(data) : Has(data[i], "id") /\ Has(data[i], "raw_text")

\* the output Record carries the id and the raw_text of the input Record
SameIdAndText(out, in) ==
    /\ Has(out, "id") /\ out["id"] = in["id"]
    /\ Has(out, "raw_text") /\ out["raw_text"] = in["raw_text"]

\* C13.  A Classifying or Scoring call that is handed a batch of Records and
\* returns, returns as many Records as it was handed, the Record at each
\* position carrying the id and the raw_text of the input Record at that
\* position, and leaves the batch it was handed as it was.
C13_StagesPreserveRecords ==
    [][(/\ op' \in {"run_llm_classification", "run_dask_analysis"}
        /\ IsRecordBatch(arg)
        /\ ret'.ok)
       => (/\ Len(ret'.value) = Len(arg)
           /\ \A i \in 1..Len(arg) : SameIdAndText(ret'.value[i], arg[i])
           /\ arg' = arg)]_vars

\* Scoring has returned for a batch of two Records that differ in their
\* other keys
C13_Witness ==
    /\ op = "run_dask_analysis"
    /\ ret.ok
    /\ Len(arg) = 2 /\ IsRecordBatch(arg)
    /\ DOMAIN arg[1] # DOMAIN arg[2]
    /\ Len(ret.value) = 2
    /\ \A i \in 1..2 : SameIdAndText(ret.value[i], arg[i])

====
